---- MODULE Spec2Model ----
(***************************************************************************)
(* A model of immer-store's createStore (src/src/index.ts): the path       *)
(* accumulator getUpdate, the subscription registry (subscribe, its        *)
(* disposers, updateListeners), flushMutations and the per-invocation      *)
(* scheduling of createAction (configureUpdate, the deferred timer, the    *)
(* promise handlers).                                                      *)
(*                                                                         *)
(* The state tree is  { x: <value>, obj: { k: <value> } }  where the key k  *)
(* may be absent.  A snapshot is a function from the leaves to a value or  *)
(* Absent.                                                                 *)
(***************************************************************************)
EXTENDS Integers, Sequences, FiniteSets, TLC

\* ---------------------------------------------------------------- bounds
MaxInv == 2       \* action invocations started in one behaviour
MaxAccess == 2    \* accesses of state made by the action functions in one behaviour
MaxAwait == 2     \* suspensions of action functions in one behaviour
MaxSubs == 3      \* subscribe calls in one behaviour
MaxOps == 2       \* edit records handed to getUpdate in one commit (SpecUpd)

\* ------------------------------------------------------------ state tree
Absent == "absent"
Vals == {"v1", "v2"}
LeafX == <<"x">>
LeafK == <<"obj", "k">>
Leaves == {LeafX, LeafK}
\* what an action of the model writes to each leaf: x is set to "v2", k is set
\* to "v1" or deleted
ValsOf(leaf) == IF leaf = LeafX THEN {"v2"} ELSE {"v1", Absent}
Snapshots == [Leaves -> Vals \cup {Absent}]
InitialState == [l \in Leaves |-> IF l = LeafX THEN "v1" ELSE Absent]

Range(s) == {s[n] : n \in 1..Len(s)}

\* Array.prototype.join('.') on a path (a sequence of keys)
RECURSIVE join(_)
join(path) ==
  IF path = <<>> THEN ""
  ELSE IF Len(path) = 1 THEN path[1]
  ELSE path[1] \o "." \o join(Tail(path))

\* path.slice(0, path.length - 1)
sliceParent(path) ==
  IF Len(path) <= 1 THEN <<>> ELSE SubSeq(path, 1, Len(path) - 1)

\* Set.prototype.add on a set kept in insertion order
setAdd(paths, p) == IF p \in Range(paths) THEN paths ELSE Append(paths, p)

\* the callback given to finishDraft, for one operation
addOperationParentAlways(paths, operation) ==
  setAdd(setAdd(paths, join(sliceParent(operation.path))), join(operation.path))
addOperation(paths, operation) ==
  LET withParent ==
        IF operation.op = "add" \/ operation.op = "remove"
        THEN setAdd(paths, join(sliceParent(operation.path)))
        ELSE paths
  IN setAdd(withParent, join(operation.path))

\* getUpdate's paths: operations.forEach over the edit records of one commit
RECURSIVE getUpdatePaths(_, _)
getUpdatePaths(paths, operations) ==
  IF operations = <<>> THEN paths
  ELSE getUpdatePaths(addOperation(paths, Head(operations)), Tail(operations))

getUpdate(operations) == getUpdatePaths(<<>>, operations)

\* ------------------------------------------------------------ draft engine
\* a draft: its state, the snapshot it was created from, its working copy
NoDraft == [st |-> "null", base |-> InitialState, copy |-> InitialState]
createDraft(snapshot) == [st |-> "open", base |-> snapshot, copy |-> snapshot]
\* after finishDraft the draft is revoked; a reference to it stays non-null
revoked(draft) == [draft EXCEPT !.st = "revoked"]

\* immer's patch for one key: none when the value is the base's
patchOf(draft, leaf) ==
  [op |-> IF draft.base[leaf] = Absent THEN "add"
          ELSE IF draft.copy[leaf] = Absent THEN "remove" ELSE "replace",
   path |-> leaf]
changedLeaves(draft) == {l \in Leaves : draft.copy[l] # draft.base[l]}

\* every sequence that lists each element of S once
Orderings(S) ==
  {s \in [1..Cardinality(S) -> S] : \A a, b \in 1..Cardinality(S) : s[a] = s[b] => a = b}

\* finishDraft(draft, listener): the edit records the listener may receive (immer
\* lists the changed keys in the order they were first assigned: any order)
finishDraftOperations(draft) ==
  {[n \in 1..Len(order) |-> patchOf(draft, order[n])] : order \in Orderings(changedLeaves(draft))}

\* ------------------------------------------------------------------ state
VARIABLES
  currentState,      \* createStore: let currentState
  pathListeners,     \* createStore: const pathListeners (path -> bucket of subscriptions)
  globalListeners,   \* createStore: const globalListeners (update functions)
  subs,              \* the subscribe calls made so far: what each was given
  disposed,          \* the subscriptions whose disposer has been called
  calls,             \* the update callbacks invoked by the last updateListeners, in order
  lastPaths,         \* the paths handed to the last updateListeners
  lastCall,          \* the last operation of the store's interface that ran
  inv,               \* the action invocations: the closure of each call of an action
  stack,             \* the invocations whose function is running, innermost last
  accesses,          \* facade accesses made so far
  awaits,            \* suspensions made so far
  operations,        \* SpecUpd: the edit records of one commit
  paths              \* SpecUpd: the dirty paths getUpdate made of them

vars == <<currentState, pathListeners, globalListeners, subs, disposed, calls, lastPaths,
          lastCall, inv, stack, accesses, awaits, operations, paths>>
regVars == <<pathListeners, globalListeners, subs, disposed>>
invVars == <<inv, stack, accesses, awaits>>
updVars == <<operations, paths>>

\* --------------------------------------------------- subscription registry
\* every dot-joined path of the state tree, and of its root
PathStrs == {"", "x", "obj", "obj.k"}
\* the update functions a caller passes to subscribe, and what each does when it
\* is invoked: render only ("f", "g"); unmount (call the disposer of the first subscription);
\* throw
Updates == {"f", "g", "u", "t"}
Effect(update) ==
  IF update = "u" THEN "unmount" ELSE IF update = "t" THEN "throw" ELSE "render"
\* what a caller passes to subscribe: an update function, and the paths it reads
\* (none: a selector, notified of every commit)
Subscriptions ==
  {[update |-> "f", global |-> FALSE, paths |-> {"x", "obj"}],
   [update |-> "f", global |-> TRUE, paths |-> {}],
   [update |-> "g", global |-> TRUE, paths |-> {}],
   [update |-> "u", global |-> FALSE, paths |-> {"x"}],
   [update |-> "t", global |-> FALSE, paths |-> {"x"}]}

\* Array.prototype.indexOf, 0-based, -1 when absent
indexOf(list, item) ==
  IF \E n \in 1..Len(list) : list[n] = item
  THEN (CHOOSE n \in 1..Len(list) :
          list[n] = item /\ \A m \in 1..(n - 1) : list[m] # item) - 1
  ELSE -1

\* Array.prototype.splice(start, 1): a negative start counts from the end
splice(list, start) ==
  LET len == Len(list)
      from == IF start < 0 THEN (IF len + start < 0 THEN 0 ELSE len + start)
              ELSE (IF start > len THEN len ELSE start)
  IN IF from >= len THEN list
     ELSE SubSeq(list, 1, from) \o SubSeq(list, from + 2, len)

\* subscribe(update, paths, name): the registry after the call, for subscription s
subscribePaths(pl, s, currentPaths) ==
  [p \in PathStrs |-> IF p \in currentPaths THEN Append(pl[p], s) ELSE pl[p]]

\* the disposer subscribe returned for a path subscription
disposePaths(pl, s, currentPaths) ==
  [p \in PathStrs |-> IF p \in currentPaths THEN splice(pl[p], indexOf(pl[p], s)) ELSE pl[p]]

\* the disposer subscribe returned for a global subscription
disposeGlobal(gl, update) == splice(gl, indexOf(gl, update))

\* a disposer, on the registry reg = [pl, gl]
dispose(reg, s) ==
  IF subs[s].global
  THEN [reg EXCEPT !.gl = disposeGlobal(reg.gl, subs[s].update)]
  ELSE [reg EXCEPT !.pl = disposePaths(reg.pl, s, subs[s].paths)]

\* a call whose argument is evaluated once, before the callee runs
\* (JavaScript passes the registry by value of the reference)
callWith(F(_), x) == CHOOSE r \in {F(v) : v \in {x}} : TRUE

\* one call of an update function during updateListeners; d is the dispatch so
\* far: the registry, the value of currentState, the calls made (each with the
\* store.state the callback reads), whether a callback has thrown
callUpdateCaught(d, entry) ==
  LET called == [d EXCEPT !.calls = Append(d.calls, [seen |-> d.state] @@ entry)]
  IN IF Effect(entry.update) = "unmount"
     THEN LET reg == dispose([pl |-> called.pl, gl |-> called.gl], 1)
          IN [called EXCEPT !.pl = reg.pl, !.gl = reg.gl]
     ELSE called
callUpdate(d, entry) ==
  LET called == [d EXCEPT !.calls = Append(d.calls, [seen |-> d.state] @@ entry)]
  IN CASE Effect(entry.update) = "render" -> called
       [] Effect(entry.update) = "throw" -> [called EXCEPT !.thrown = TRUE]
       [] Effect(entry.update) = "unmount" ->
            LET reg == dispose([pl |-> called.pl, gl |-> called.gl], 1)
            IN [called EXCEPT !.pl = reg.pl, !.gl = reg.gl]

\* a bucket loop that passes over a subscription already called in this dispatch
RECURSIVE bucketForEachOnce(_, _, _, _)
bucketForEachOnce(d, path, k, len) ==
  IF d.thrown \/ k >= len THEN d
  ELSE IF k < Len(d.pl[path])
          /\ \A n \in 1..Len(d.calls) : d.calls[n].sub # d.pl[path][k + 1]
       THEN LET s == d.pl[path][k + 1]
            IN bucketForEachOnce(
                 callUpdate(d, [global |-> FALSE, sub |-> s, update |-> subs[s].update,
                                path |-> path]),
                 path, k + 1, len)
       ELSE bucketForEachOnce(d, path, k + 1, len)

\* pathListeners[path].forEach: index k (0-based) below the length read when the
\* loop started; an index the array no longer has is passed over
RECURSIVE bucketForEach(_, _, _, _)
bucketForEach(d, path, k, len) ==
  IF d.thrown \/ k >= len THEN d
  ELSE IF k < Len(d.pl[path])
       THEN LET s == d.pl[path][k + 1]
            IN callWith(LAMBDA v : bucketForEach(v, path, k + 1, len),
                        callUpdate(d, [global |-> FALSE, sub |-> s,
                                       update |-> subs[s].update, path |-> path]))
       ELSE bucketForEach(d, path, k + 1, len)

\* paths.forEach
RECURSIVE pathsForEach(_, _)
pathsForEach(d, dirty) ==
  IF d.thrown \/ dirty = <<>> THEN d
  ELSE callWith(LAMBDA v : pathsForEach(v, Tail(dirty)),
                bucketForEach(d, Head(dirty), 0, Len(d.pl[Head(dirty)])))

\* globalListeners.forEach
RECURSIVE globalForEach(_, _, _)
globalForEach(d, k, len) ==
  IF d.thrown \/ k >= len THEN d
  ELSE IF k < Len(d.gl)
       THEN callWith(LAMBDA v : globalForEach(v, k + 1, len),
                     callUpdate(d, [global |-> TRUE, sub |-> 0, update |-> d.gl[k + 1],
                                    path |-> ""]))
       ELSE globalForEach(d, k + 1, len)

\* updateListeners(paths) on the registry reg: the dispatch it leaves
updateListenersGlobalFirst(reg, dirty) ==
  LET start == [pl |-> reg.pl, gl |-> reg.gl, state |-> reg.state, calls |-> <<>>,
                thrown |-> FALSE]
      afterGlobal == globalForEach(start, 0, Len(start.gl))
  IN pathsForEach(afterGlobal, dirty)
updateListeners(reg, dirty) ==
  LET start == [pl |-> reg.pl, gl |-> reg.gl, state |-> reg.state, calls |-> <<>>,
                thrown |-> FALSE]
      afterPaths == pathsForEach(start, dirty)
  IN globalForEach(afterPaths, 0, Len(afterPaths.gl))

\* flushMutations(draft, actionName), ops being the edit records finishDraft
\* reports: the new currentState and the dispatch, which runs with currentState
\* already assigned
flushMutationsNotifyFirst(draft, ops) ==
  [newState |-> draft.copy,
   paths |-> getUpdate(ops),
   dispatch |-> updateListeners([pl |-> pathListeners, gl |-> globalListeners,
                                 state |-> currentState],
                                getUpdate(ops))]
flushMutations(draft, ops) ==
  [newState |-> draft.copy,
   paths |-> getUpdate(ops),
   dispatch |-> updateListeners([pl |-> pathListeners, gl |-> globalListeners,
                                 state |-> draft.copy],
                                getUpdate(ops))]

\* ------------------------------------------------------ shared initial values
NoCall == [op |-> "none", sub |-> 0, thrown |-> FALSE]
EmptyRegistry == [p \in PathStrs |-> <<>>]

InitStore ==
  /\ currentState = InitialState
  /\ pathListeners = EmptyRegistry
  /\ globalListeners = <<>>
  /\ subs = <<>>
  /\ disposed = {}
  /\ calls = <<>>
  /\ lastPaths = <<>>
  /\ lastCall = NoCall
  /\ inv = <<>>
  /\ stack = <<>>
  /\ accesses = 0
  /\ awaits = 0

\* ------------------------------------------------- SpecUpd: the path accumulator
EditKinds == {"add", "remove", "replace"}
EditPaths == {<<>>, LeafX, <<"obj">>, LeafK}
EditRecords == [op : EditKinds, path : EditPaths]
EditLists == UNION {[1..n -> EditRecords] : n \in 0..MaxOps}

InitUpd ==
  /\ InitStore
  /\ operations \in EditLists
  /\ paths = <<>>

\* getUpdate(draft): finishDraft hands the edit records to the listener
GetUpdate ==
  /\ lastCall.op = "none"
  /\ paths' = getUpdate(operations)
  /\ lastCall' = [NoCall EXCEPT !.op = "getUpdate"]
  /\ UNCHANGED <<currentState, calls, lastPaths, operations>>
  /\ UNCHANGED regVars
  /\ UNCHANGED invVars

NextUpd == GetUpdate
SpecUpd == InitUpd /\ [][NextUpd]_vars

\* ------------------------------------------------ SpecReg: the subscription registry
InitReg ==
  /\ InitStore
  /\ operations = <<>>
  /\ paths = <<>>

\* store.subscribe(update, paths, name), and store.subscribe(update)
Subscribe(sub) ==
  /\ Len(subs) < MaxSubs
  /\ subs' = Append(subs, sub)
  /\ pathListeners' =
       IF sub.global THEN pathListeners
       ELSE subscribePaths(pathListeners, Len(subs) + 1, sub.paths)
  /\ globalListeners' =
       IF sub.global THEN Append(globalListeners, sub.update) ELSE globalListeners
  /\ lastCall' = [op |-> "subscribe", sub |-> Len(subs) + 1, thrown |-> FALSE]
  /\ calls' = <<>>
  /\ lastPaths' = <<>>
  /\ UNCHANGED <<currentState, disposed>>
  /\ UNCHANGED invVars
  /\ UNCHANGED updVars

\* a call, by the subscriber, of the disposer subscribe returned for s
Dispose(s) ==
  /\ s \in 1..Len(subs)
  /\ LET reg == dispose([pl |-> pathListeners, gl |-> globalListeners], s)
     IN /\ pathListeners' = reg.pl
        /\ globalListeners' = reg.gl
  /\ disposed' = disposed \cup {s}
  /\ lastCall' = [op |-> "dispose", sub |-> s, thrown |-> FALSE]
  /\ calls' = <<>>
  /\ lastPaths' = <<>>
  /\ UNCHANGED <<currentState, subs>>
  /\ UNCHANGED invVars
  /\ UNCHANGED updVars

\* the drafts a synchronous action function can leave: each leaf kept, set or deleted
WrittenDrafts ==
  {[createDraft(currentState) EXCEPT !.copy = copy] :
     copy \in {c \in Snapshots :
                 \A l \in Leaves : c[l] \in {currentState[l]} \cup ValsOf(l)}}

\* the subscriptions whose disposer the callbacks of a dispatch called
disposedBy(dispatch) ==
  IF \E n \in 1..Len(dispatch.calls) : Effect(dispatch.calls[n].update) = "unmount"
  THEN {1} ELSE {}

\* store.actions.<name>(payload) for a function that accesses the state, writes
\* and returns no promise: the draft is opened, written and flushed on return
SyncAction(draft, ops) ==
  /\ LET flush == flushMutations(draft, ops)
     IN /\ currentState' = flush.newState
        /\ pathListeners' = flush.dispatch.pl
        /\ globalListeners' = flush.dispatch.gl
        /\ calls' = flush.dispatch.calls
        /\ lastPaths' = flush.paths
        /\ disposed' = disposed \cup disposedBy(flush.dispatch)
        /\ lastCall' = [op |-> "action", sub |-> 0, thrown |-> flush.dispatch.thrown]
  /\ UNCHANGED subs
  /\ UNCHANGED invVars
  /\ UNCHANGED updVars

NextReg ==
  \/ \E sub \in Subscriptions : Subscribe(sub)
  \/ \E s \in 1..MaxSubs : Dispose(s)
  \/ \E draft \in WrittenDrafts : \E ops \in finishDraftOperations(draft) : SyncAction(draft, ops)

SpecReg == InitReg /\ [][NextReg]_vars

\* ------------------------------------------------ Spec: the scheduling of actions
\* the closure of one call of an action (createAction's target[key]):
\*   phase         where the action function is: "sync" (running, called by the
\*                 caller), "pending" (it returned a promise that has not settled),
\*                 "async" (its continuation is running), "returned", "threw",
\*                 "resolved", "rejected"
\*   currentDraft  let currentDraft
\*   timeout       whether the timer of `let timeout` is pending
\*   ref           a reference into the draft the function kept from a read of
\*                 state.obj: "none", "live", or "stale" once that draft is finished
\*   wrote         the leaves written while the current draft is open
\*   written       the leaves written before the function first returned ("sync")
\*                 and after it was first resumed ("async")
\*   opened        how many drafts createDraft has made for this invocation
\*   suspended     how often the function has been suspended
\*   fired         whether the timer fired while the function was suspended
\*   commits       the flushMutations calls made for this invocation
\*   error         what the action threw, or its promise rejected with
\*   chain         how the promise made by .then(..).catch(..) settled
NewInvocationEagerDraft ==
  [phase |-> "sync", currentDraft |-> createDraft(InitialState), timeout |-> FALSE,
   ref |-> "none", wrote |-> {}, written |-> [sync |-> {}, async |-> {}], opened |-> 0,
   suspended |-> 0, fired |-> FALSE, commits |-> <<>>, error |-> "none", chain |-> "none"]
NewInvocation ==
  [phase |-> "sync", currentDraft |-> NoDraft, timeout |-> FALSE, ref |-> "none",
   wrote |-> {}, written |-> [sync |-> {}, async |-> {}], opened |-> 0, suspended |-> 0,
   fired |-> FALSE, commits |-> <<>>,
   error |-> "none", chain |-> "none"]

\* the store the actions of Spec run against: a component subscribed to x and
\* obj, and a selector
InitSubs ==
  <<[update |-> "f", global |-> FALSE, paths |-> {"x", "obj"}],
    [update |-> "f", global |-> TRUE, paths |-> {}]>>

Init ==
  /\ currentState = InitialState
  /\ subs = InitSubs
  /\ pathListeners = subscribePaths(EmptyRegistry, 1, {"x", "obj"})
  /\ globalListeners = <<"f">>
  /\ disposed = {}
  /\ calls = <<>>
  /\ lastPaths = <<>>
  /\ lastCall = NoCall
  /\ inv = <<>>
  /\ stack = <<>>
  /\ accesses = 0
  /\ awaits = 0
  /\ operations = <<>>
  /\ paths = <<>>

Top == stack[Len(stack)]
Pop == SubSeq(stack, 1, Len(stack) - 1)
Running(i) == stack # <<>> /\ Top = i /\ inv[i].phase \in {"sync", "async"}

\* what the state proxy's traps do to the draft
Accesses ==
  [kind : {"get"}, leaf : {LeafK}, val : {Absent}]
  \cup UNION {[kind : {"set"}, leaf : {l}, val : ValsOf(l)] : l \in Leaves}
applyAccess(draft, a) ==
  IF a.kind = "get" THEN draft ELSE [draft EXCEPT !.copy[a.leaf] = a.val]

\* clearTimeout(timeout)
clearTimeoutNot(c) == c
clearTimeout(c) == [c EXCEPT !.timeout = FALSE]

\* configureUpdate(): a draft is made if there is none, the timer is set again
configureUpdate(c) ==
  [clearTimeout(c) EXCEPT
     !.currentDraft = IF c.currentDraft.st = "null"
                      THEN createDraft(currentState) ELSE c.currentDraft,
     !.opened = IF c.currentDraft.st = "null" THEN @ + 1 ELSE @,
     !.timeout = TRUE]

\* the leaves an access writes, recorded for the run of the function it is in
recordWrite(c, leaves) ==
  [c EXCEPT !.wrote = @ \cup leaves,
            !.written = IF c.phase = "sync" THEN [@ EXCEPT !.sync = @ \cup leaves]
                        ELSE [@ EXCEPT !.async = @ \cup leaves]]

\* the function failed: a throw to the caller while it runs synchronously, a
\* rejection of its promise afterwards; the .catch handler renames the error of a
\* revoked draft and throws again
failedSameError(c, error) ==
  IF c.phase = "sync"
  THEN [c EXCEPT !.phase = "threw", !.error = error]
  ELSE [c EXCEPT !.phase = "rejected", !.error = error, !.chain = error]
failed(c, error) ==
  IF c.phase = "sync"
  THEN [c EXCEPT !.phase = "threw", !.error = error]
  ELSE [c EXCEPT !.phase = "rejected", !.error = error,
                 !.chain = IF error = "revoked" THEN "named" ELSE error]

\* the invocation record after flushMutations(currentDraft, name) by `by`, and
\* `currentDraft = null` unless a subscriber threw
flushed(c, by, flush) ==
  [c EXCEPT !.commits = Append(c.commits,
                               [by |-> by, paths |-> Range(flush.paths), wrote |-> c.wrote,
                                changed |-> changedLeaves(c.currentDraft),
                                notified |-> flush.dispatch.calls # <<>>]),
            !.currentDraft = IF flush.dispatch.thrown THEN revoked(c.currentDraft) ELSE NoDraft,
            !.ref = IF c.ref = "live" THEN "stale" ELSE c.ref,
            !.wrote = {}]

\* the store after a flushMutations
Commit(flush) ==
  /\ currentState' = flush.newState
  /\ pathListeners' = flush.dispatch.pl
  /\ globalListeners' = flush.dispatch.gl
  /\ disposed' = disposed \cup disposedBy(flush.dispatch)
  /\ UNCHANGED <<subs, calls, lastPaths, lastCall>>

NoCommit == UNCHANGED <<currentState, pathListeners, globalListeners, subs, disposed,
                        calls, lastPaths, lastCall>>

\* store.actions.<name>(payload): the closure is made and func is called; the
\* caller is the application, or an action function that is running
Invoke ==
  /\ Len(inv) < MaxInv
  /\ inv' = Append(inv, NewInvocation)
  /\ stack' = Append(stack, Len(inv) + 1)
  /\ NoCommit
  /\ UNCHANGED <<accesses, awaits>>
  /\ UNCHANGED updVars

\* a read, write or delete through the state proxy: configureUpdate, then the
\* operation on currentDraft, which throws when the draft is revoked
AccessWriteThrough(i, a) ==
  /\ Running(i)
  /\ accesses < MaxAccess
  /\ accesses' = accesses + 1
  /\ currentState' = IF a.kind = "get" THEN currentState
                     ELSE [currentState EXCEPT ![a.leaf] = a.val]
  /\ UNCHANGED <<pathListeners, globalListeners, subs, disposed, calls, lastPaths, lastCall>>
  /\ UNCHANGED <<inv, stack, awaits>>
  /\ UNCHANGED updVars
Access(i, a) ==
  /\ Running(i)
  /\ accesses < MaxAccess
  /\ accesses' = accesses + 1
  /\ LET c == configureUpdate(inv[i])
     IN IF c.currentDraft.st = "revoked"
        THEN /\ inv' = [inv EXCEPT ![i] = failed(c, "revoked")]
             /\ stack' = Pop
        ELSE /\ inv' = [inv EXCEPT ![i] =
                    [recordWrite(c, IF a.kind = "get" THEN {} ELSE {a.leaf}) EXCEPT
                       !.currentDraft = applyAccess(c.currentDraft, a),
                       !.ref = IF a.kind = "get" THEN "live" ELSE c.ref]]
             /\ stack' = stack
  /\ NoCommit
  /\ UNCHANGED awaits
  /\ UNCHANGED updVars

\* a write (obj.k = "v1") through the reference kept from an earlier read of state.obj:
\* no trap of the state proxy runs; a revoked draft throws
WriteThroughRef(i) ==
  /\ Running(i)
  /\ inv[i].ref # "none"
  /\ accesses < MaxAccess
  /\ accesses' = accesses + 1
  /\ IF inv[i].ref = "stale"
     THEN /\ inv' = [inv EXCEPT ![i] = failed(inv[i], "revoked")]
          /\ stack' = Pop
     ELSE /\ inv' = [inv EXCEPT ![i] =
                 [recordWrite(inv[i], {LeafK}) EXCEPT !.currentDraft.copy[LeafK] = "v1"]]
          /\ stack' = stack
  /\ NoCommit
  /\ UNCHANGED awaits
  /\ UNCHANGED updVars

\* func returned something that is no promise: the timer is cleared and an open
\* draft is flushed at once
ReturnSyncNoFlush(i) ==
  /\ Running(i)
  /\ inv[i].phase = "sync"
  /\ stack' = Pop
  /\ inv' = [inv EXCEPT ![i] = [clearTimeout(inv[i]) EXCEPT !.phase = "returned"]]
  /\ NoCommit
  /\ UNCHANGED <<accesses, awaits>>
  /\ UNCHANGED updVars
ReturnSync(i) ==
  /\ Running(i)
  /\ inv[i].phase = "sync"
  /\ stack' = Pop
  /\ LET c == [clearTimeout(inv[i]) EXCEPT !.phase = "returned"]
     IN IF c.currentDraft.st = "open"
        THEN \E ops \in finishDraftOperations(c.currentDraft) :
               \E flush \in {flushMutations(c.currentDraft, ops)} :
                  /\ inv' = [inv EXCEPT ![i] = flushed(c, "return", flush)]
                  /\ Commit(flush)
        ELSE /\ inv' = [inv EXCEPT ![i] = c]
             /\ NoCommit
  /\ UNCHANGED <<accesses, awaits>>
  /\ UNCHANGED updVars

\* func threw: the exception leaves the wrapper at the call of func
ThrowSync(i) ==
  /\ Running(i)
  /\ inv[i].phase = "sync"
  /\ stack' = Pop
  /\ inv' = [inv EXCEPT ![i].phase = "threw", ![i].error = "user"]
  /\ NoCommit
  /\ UNCHANGED <<accesses, awaits>>
  /\ UNCHANGED updVars

\* func returned a promise that has not settled (an async function at its first
\* await): the handlers are attached and the promise is returned
ReturnPromiseClearTimeout(i) ==
  /\ Running(i)
  /\ inv[i].phase = "sync"
  /\ awaits < MaxAwait
  /\ awaits' = awaits + 1
  /\ stack' = Pop
  /\ inv' = [inv EXCEPT ![i] = [clearTimeout(inv[i]) EXCEPT !.phase = "pending",
                                                            !.suspended = @ + 1]]
  /\ NoCommit
  /\ UNCHANGED accesses
  /\ UNCHANGED updVars
ReturnPromise(i) ==
  /\ Running(i)
  /\ inv[i].phase = "sync"
  /\ awaits < MaxAwait
  /\ awaits' = awaits + 1
  /\ stack' = Pop
  /\ inv' = [inv EXCEPT ![i].phase = "pending", ![i].suspended = @ + 1]
  /\ NoCommit
  /\ UNCHANGED accesses
  /\ UNCHANGED updVars

\* the promise the function awaits has settled: its continuation runs, as a task
\* of its own
Resume(i) ==
  /\ stack = <<>>
  /\ i \in 1..Len(inv)
  /\ inv[i].phase = "pending"
  /\ stack' = <<i>>
  /\ inv' = [inv EXCEPT ![i].phase = "async"]
  /\ NoCommit
  /\ UNCHANGED <<accesses, awaits>>
  /\ UNCHANGED updVars

\* the continuation awaits again
Await(i) ==
  /\ Running(i)
  /\ inv[i].phase = "async"
  /\ awaits < MaxAwait
  /\ awaits' = awaits + 1
  /\ stack' = Pop
  /\ inv' = [inv EXCEPT ![i].phase = "pending", ![i].suspended = @ + 1]
  /\ NoCommit
  /\ UNCHANGED accesses
  /\ UNCHANGED updVars

\* the function is done and its promise resolves: the .then handler clears the
\* timer and flushes a draft that is there
ResolveNoFlush(i) ==
  /\ Running(i)
  /\ inv[i].phase = "async"
  /\ stack' = Pop
  /\ inv' = [inv EXCEPT ![i] = [clearTimeout(inv[i]) EXCEPT !.phase = "resolved", !.chain = "ok"]]
  /\ NoCommit
  /\ UNCHANGED <<accesses, awaits>>
  /\ UNCHANGED updVars
Resolve(i) ==
  /\ Running(i)
  /\ inv[i].phase = "async"
  /\ stack' = Pop
  /\ LET c == [clearTimeout(inv[i]) EXCEPT !.phase = "resolved", !.chain = "ok"]
     IN IF c.currentDraft.st = "open"
        THEN \E ops \in finishDraftOperations(c.currentDraft) :
               \E flush \in {flushMutations(c.currentDraft, ops)} :
                  /\ inv' = [inv EXCEPT ![i] =
                                [flushed(c, "then", flush) EXCEPT
                                   !.chain = IF flush.dispatch.thrown THEN "subscriber" ELSE "ok"]]
                  /\ Commit(flush)
        ELSE /\ inv' = [inv EXCEPT ![i] = c]
             /\ NoCommit
  /\ UNCHANGED <<accesses, awaits>>
  /\ UNCHANGED updVars

\* the continuation throws: the promise rejects, .then is passed over
RejectClearTimeout(i) ==
  /\ Running(i)
  /\ inv[i].phase = "async"
  /\ stack' = Pop
  /\ inv' = [inv EXCEPT ![i] = clearTimeout(failed(inv[i], "user"))]
  /\ NoCommit
  /\ UNCHANGED <<accesses, awaits>>
  /\ UNCHANGED updVars
Reject(i) ==
  /\ Running(i)
  /\ inv[i].phase = "async"
  /\ stack' = Pop
  /\ inv' = [inv EXCEPT ![i] = failed(inv[i], "user")]
  /\ NoCommit
  /\ UNCHANGED <<accesses, awaits>>
  /\ UNCHANGED updVars

\* the callback configureUpdate gave setTimeout runs, as a task of its own
TimerFire(i) ==
  /\ stack = <<>>
  /\ i \in 1..Len(inv)
  /\ inv[i].timeout
  /\ LET c == [inv[i] EXCEPT !.timeout = FALSE,
                             !.fired = @ \/ inv[i].phase = "pending"]
     IN IF c.currentDraft.st = "open"
        THEN \E ops \in finishDraftOperations(c.currentDraft) :
               \E flush \in {flushMutations(c.currentDraft, ops)} :
                  /\ inv' = [inv EXCEPT ![i] = flushed(c, "timer", flush)]
                  /\ Commit(flush)
        ELSE /\ inv' = [inv EXCEPT ![i] = c]
             /\ NoCommit
  /\ UNCHANGED <<stack, accesses, awaits>>
  /\ UNCHANGED updVars

Next ==
  \/ Invoke
  \/ \E i \in 1..MaxInv, a \in Accesses : Access(i, a)
  \/ \E i \in 1..MaxInv : WriteThroughRef(i)
  \/ \E i \in 1..MaxInv : ReturnSync(i)
  \/ \E i \in 1..MaxInv : ThrowSync(i)
  \/ \E i \in 1..MaxInv : ReturnPromise(i)
  \/ \E i \in 1..MaxInv : Resume(i)
  \/ \E i \in 1..MaxInv : Await(i)
  \/ \E i \in 1..MaxInv : Resolve(i)
  \/ \E i \in 1..MaxInv : Reject(i)
  \/ \E i \in 1..MaxInv : TimerFire(i)

Spec == Init /\ [][Next]_vars

\* the event loop: a function that is running runs to its return, throw or next
\* await before any task starts, and a timer that is pending fires once the stack
\* is empty; a promise that is awaited may never settle
RunToCompletion ==
  \E i \in 1..MaxInv :
    ReturnSync(i) \/ ThrowSync(i) \/ ReturnPromise(i) \/ Resolve(i) \/ Reject(i) \/ Await(i)
TimersFire == \E i \in 1..MaxInv : TimerFire(i)
SpecLive == Init /\ [][Next]_vars /\ WF_vars(RunToCompletion) /\ WF_vars(TimersFire)

\* ======================================================================
\* Claims about the scheduling of actions (Spec)
\* ======================================================================
\* the dot-joined string of each path of the state tree, and of its parent
PathString(path) ==
  CASE path = <<>> -> ""
    [] path = LeafX -> "x"
    [] path = <<"obj">> -> "obj"
    [] path = LeafK -> "obj.k"
ParentString(path) == IF path = LeafK THEN "obj" ELSE ""

\* the dot-joined paths of a set of leaves
PathStrings(leaves) == {PathString(l) : l \in leaves}

\* C1 as the specification states it: a synchronous action that wrote several
\* different paths has, once it returned, exactly one commit, made at the return,
\* with one notification batch, the dirty path set holds the path of every write
\* it made, and the timer is no longer pending.
C1_EveryWrittenPath ==
  \A i \in 1..Len(inv) :
    (inv[i].phase = "returned" /\ Cardinality(inv[i].written.sync) >= 2) =>
      /\ Len(inv[i].commits) = 1
      /\ inv[i].commits[1].by = "return"
      /\ inv[i].commits[1].notified
      /\ PathStrings(inv[i].written.sync) \subseteq inv[i].commits[1].paths
      /\ ~inv[i].timeout

\* C1: a synchronous action that wrote several different paths has, once it
\* returned, exactly one commit, made at the return and covering all its writes,
\* with one notification batch; the dirty path set holds the path of every write
\* that changed the value at its path; the timer is no longer pending, so it adds
\* no commit later.
C1_EveryChangedPath ==
  \A i \in 1..Len(inv) :
    (inv[i].phase = "returned" /\ Cardinality(inv[i].written.sync) >= 2) =>
      /\ Len(inv[i].commits) = 1
      /\ inv[i].commits[1].by = "return"
      /\ inv[i].commits[1].notified
      /\ inv[i].commits[1].wrote = inv[i].written.sync
      /\ inv[i].commits[1].changed \subseteq inv[i].written.sync
      /\ PathStrings(inv[i].commits[1].changed) \subseteq inv[i].commits[1].paths
      /\ ~inv[i].timeout

\* a synchronous action changed x and obj.k and has returned
C1_Witness ==
  \E i \in 1..Len(inv) :
    /\ inv[i].phase = "returned"
    /\ inv[i].written.sync = Leaves
    /\ Len(inv[i].commits) = 1
    /\ inv[i].commits[1].changed = Leaves
    /\ {"x", "obj.k"} \subseteq inv[i].commits[1].paths

\* C2 as the specification states it: an invocation that touched state has at
\* most one commit, and exactly one once it has returned or its promise resolved.
C2_ExactlyOneCommit ==
  \A i \in 1..Len(inv) :
    inv[i].opened > 0 =>
      /\ Len(inv[i].commits) <= 1
      /\ inv[i].phase \in {"returned", "resolved"} => Len(inv[i].commits) = 1

\* C2: an invocation has one commit for each draft it opened and finished; an
\* invocation that returned no promise opened at most one draft, and if it touched
\* state it has exactly one commit once it returned; an invocation that returned a
\* promise may have opened, and committed, more than one.
C2_OneCommitPerDraft ==
  \A i \in 1..Len(inv) :
    /\ Len(inv[i].commits) = inv[i].opened - (IF inv[i].currentDraft.st = "open" THEN 1 ELSE 0)
    /\ \A n \in 1..Len(inv[i].commits) : inv[i].commits[n].notified
    /\ inv[i].phase \in {"sync", "returned", "threw"} => inv[i].opened <= 1
    /\ inv[i].phase = "returned" => Len(inv[i].commits) = inv[i].opened /\ ~inv[i].timeout

\* a synchronous action that touched state has returned, with its one commit
C2_Witness ==
  \E i \in 1..Len(inv) :
    /\ inv[i].phase = "returned"
    /\ inv[i].opened = 1
    /\ Len(inv[i].commits) = 1

\* C3: an asynchronous action that wrote state, was suspended once, had its timer
\* fire while it was suspended, wrote state again after it was resumed and resolved
\* has exactly two commits, each with a notification batch: the first made by the
\* timer with the writes made before the suspension, the second made when the
\* promise resolved with the writes made after it.
C3_TwoCommits ==
  \A i \in 1..Len(inv) :
    (/\ inv[i].phase = "resolved"
     /\ inv[i].suspended = 1
     /\ inv[i].fired
     /\ inv[i].written.sync # {}
     /\ inv[i].written.async # {}) =>
      /\ Len(inv[i].commits) = 2
      /\ inv[i].commits[1].by = "timer"
      /\ inv[i].commits[1].wrote = inv[i].written.sync
      /\ PathStrings(inv[i].commits[1].changed) \subseteq inv[i].commits[1].paths
      /\ inv[i].commits[1].notified
      /\ inv[i].commits[2].by = "then"
      /\ inv[i].commits[2].wrote = inv[i].written.async
      /\ PathStrings(inv[i].commits[2].changed) \subseteq inv[i].commits[2].paths
      /\ inv[i].commits[2].notified

\* an action changed x, was suspended, the timer committed, it changed obj.k after
\* the suspension and resolved
C3_Witness ==
  \E i \in 1..Len(inv) :
    /\ inv[i].phase = "resolved"
    /\ inv[i].suspended = 1
    /\ inv[i].fired
    /\ inv[i].written = [sync |-> {LeafX}, async |-> {LeafK}]
    /\ Len(inv[i].commits) = 2
    /\ inv[i].commits[1].changed = {LeafX}
    /\ inv[i].commits[2].changed = {LeafK}

\* C9: an action whose function threw synchronously has no commit, at the throw
\* and ever after: its draft is discarded and no subscriber is notified.
C9_ThrowDiscardsDraft ==
  \A i \in 1..Len(inv) :
    (inv[i].phase = "threw" /\ inv[i].error = "user") =>
      inv[i].commits = <<>>

\* C10 as the specification states it: an access of state by an asynchronous
\* action whose draft was committed and discarded rejects the returned promise
\* with an error that names the action, and opens no draft.
C10_StaleDraftError ==
  [][\A i \in 1..Len(inv) :
       (/\ inv[i].phase = "async"
        /\ inv[i].commits # <<>>
        /\ inv[i].currentDraft.st = "null"
        /\ accesses' = accesses + 1
        /\ inv'[i] # inv[i]) =>
         /\ inv'[i].phase = "rejected"
         /\ inv'[i].error = "named"
         /\ inv'[i].currentDraft.st = "null"]_vars

\* C10: an access of state by an asynchronous action whose draft was committed and
\* discarded either goes through the state proxy, and opens a new draft on the
\* current snapshot with the timer set, or goes through a reference kept from the
\* discarded draft, and rejects the returned promise with the draft engine's error
\* for a revoked proxy, while the promise made by .catch, which the caller does not
\* have, rejects with the error that names the action.
C10_AccessAfterCommit ==
  [][\A i \in 1..Len(inv) :
       (/\ inv[i].phase = "async"
        /\ inv[i].commits # <<>>
        /\ inv[i].currentDraft.st = "null"
        /\ accesses' = accesses + 1
        /\ inv'[i] # inv[i]) =>
         \/ /\ inv'[i].phase = "async"
            /\ inv'[i].currentDraft.st = "open"
            /\ inv'[i].currentDraft.base = currentState
            /\ inv'[i].opened = inv[i].opened + 1
            /\ inv'[i].timeout
            /\ inv'[i].error = "none"
         \/ /\ inv[i].ref = "stale"
            /\ inv'[i].phase = "rejected"
            /\ inv'[i].currentDraft.st = "null"
            /\ inv'[i].error = "revoked"
            /\ inv'[i].chain = "named"]_vars

\* an asynchronous action whose first draft the timer committed wrote x through
\* the state proxy after it was resumed: a second draft is open
C10_Witness ==
  \E i \in 1..Len(inv) :
    /\ inv[i].phase = "async"
    /\ Len(inv[i].commits) = 1
    /\ inv[i].commits[1].by = "timer"
    /\ inv[i].opened = 2
    /\ inv[i].currentDraft.st = "open"
    /\ inv[i].written.async # {}

\* C11: an invocation that never accessed the state proxy (no draft was made for
\* it), whether it returned a value or a promise, has no commit and so no
\* notification, has no timer pending, and none of its steps changes currentState.
C11_NoAccessNoCommit ==
  [][\A i \in 1..Len(inv') :
       inv'[i].opened = 0 =>
         /\ inv'[i].commits = <<>>
         /\ inv'[i].currentDraft.st = "null"
         /\ ~inv'[i].timeout
         /\ (i <= Len(inv) /\ inv'[i] # inv[i]) =>
              /\ currentState' = currentState
              /\ pathListeners' = pathListeners
              /\ globalListeners' = globalListeners]_vars

\* an action that returned a promise, was resumed and resolved without an access
C11_Witness ==
  \E i \in 1..Len(inv) :
    /\ inv[i].opened = 0
    /\ inv[i].phase = "resolved"
    /\ inv[i].commits = <<>>

\* no task (a timer callback, a continuation) has run yet: every invocation made
\* so far was made in the first synchronous turn
NoTaskYet ==
  \A i \in 1..Len(inv) :
    /\ inv[i].phase \in {"sync", "pending", "returned", "threw"}
    /\ inv[i].suspended <= 1
    /\ \A n \in 1..Len(inv[i].commits) : inv[i].commits[n].by # "timer"

\* C12: when actions are invoked one after the other in one synchronous turn, the
\* draft of a later one is opened only after every earlier one that touched state
\* and has returned (a value or a promise) has committed, on the snapshot that
\* commit left; so the commits come in the order of the invocations and none
\* overwrites another.
C12_BackToBackOrder ==
  [][\A j \in 1..Len(inv) :
       (NoTaskYet /\ inv'[j].opened = inv[j].opened + 1) =>
         /\ inv'[j].currentDraft.base = currentState
         /\ \A i \in 1..(j - 1) :
              (inv[i].phase \in {"returned", "pending"} /\ inv[i].opened > 0) =>
                /\ inv[i].currentDraft.st = "null"
                /\ Len(inv[i].commits) = 1]_vars

\* C14 as the specification states it: currentState changes only in a step that
\* commits, and no step changes it while an action function that was called
\* synchronously is still running, which has no commit either.
C14_PreActionSnapshot ==
  [][/\ currentState' # currentState =>
          \E i \in 1..Len(inv) : Len(inv'[i].commits) = Len(inv[i].commits) + 1
     /\ \A i \in 1..Len(inv) :
          (inv[i].phase = "sync" /\ inv'[i].phase = "sync") =>
            /\ inv'[i].commits = <<>>
            /\ currentState' = currentState]_vars

\* C14: currentState changes only in a step that commits, to the finished draft of
\* the committing invocation; an access of the state proxy, read or write, leaves
\* it unchanged; an action function that was called synchronously and is still
\* running has no commit, and currentState changes under it only by the commit of
\* an action it called itself, at that action's return.
C14_CommitStepsOnly ==
  [][/\ currentState' # currentState =>
          \E i \in 1..Len(inv) :
            /\ Len(inv'[i].commits) = Len(inv[i].commits) + 1
            /\ inv[i].currentDraft.st = "open"
            /\ currentState' = inv[i].currentDraft.copy
     /\ accesses' # accesses => currentState' = currentState
     /\ \A i \in 1..Len(inv) :
          (inv[i].phase = "sync" /\ inv'[i].phase = "sync") =>
            /\ inv'[i].commits = <<>>
            /\ currentState' # currentState =>
                 \E j \in (i + 1)..Len(inv) :
                   /\ Top = j
                   /\ inv[j].phase = "sync"
                   /\ inv'[j].phase = "returned"]_vars

\* an action that is still running has written x and obj.k: currentState is the
\* snapshot its draft was made from
C14_Witness ==
  \E i \in 1..Len(inv) :
    /\ inv[i].phase = "sync"
    /\ inv[i].currentDraft.st = "open"
    /\ changedLeaves(inv[i].currentDraft) = Leaves
    /\ currentState = inv[i].currentDraft.base
    /\ inv[i].commits = <<>>

\* C15: no commit has an empty dirty path set: every notification batch, and so
\* every call of a global subscriber, comes with at least one dirty path.
C15_NoEmptyCommit ==
  \A i \in 1..Len(inv) : \A n \in 1..Len(inv[i].commits) :
    inv[i].commits[n].paths # {}

\* C16 as the specification states it: once the function has returned a promise
\* the timer of the invocation is not pending, and no commit of an invocation that
\* returned a promise is made by the timer.
C16_TimerCancelled ==
  \A i \in 1..Len(inv) :
    /\ (inv[i].phase = "pending" /\ inv[i].suspended = 1) => ~inv[i].timeout
    /\ inv[i].suspended >= 1 =>
         \A n \in 1..Len(inv[i].commits) : inv[i].commits[n].by # "timer"

\* C16: the return of a promise leaves the timer and the draft of the invocation as
\* they are, so with a draft open the timer stays pending; a commit made while the
\* promise is unsettled is made by the timer, which discards the draft; a commit
\* by the .then handler is made when the promise resolves.
C16_TimerStaysArmed ==
  [][\A i \in 1..Len(inv) :
       /\ (inv[i].phase = "sync" /\ inv'[i].phase = "pending") =>
            /\ inv'[i].timeout = inv[i].timeout
            /\ inv'[i].currentDraft = inv[i].currentDraft
            /\ inv[i].currentDraft.st = "open" => inv'[i].timeout
       /\ (inv[i].phase = "pending" /\ Len(inv'[i].commits) = Len(inv[i].commits) + 1) =>
            /\ inv'[i].phase = "pending"
            /\ inv'[i].commits[Len(inv'[i].commits)].by = "timer"
            /\ inv'[i].currentDraft.st = "null"
            /\ ~inv'[i].timeout
       /\ (/\ Len(inv'[i].commits) = Len(inv[i].commits) + 1
           /\ inv'[i].commits[Len(inv'[i].commits)].by = "then") =>
            /\ inv[i].phase = "async"
            /\ inv'[i].phase = "resolved"
            /\ ~inv'[i].timeout]_vars

\* the timer committed the write of x while the promise was unsettled
C16_Witness ==
  \E i \in 1..Len(inv) :
    /\ inv[i].phase = "pending"
    /\ inv[i].suspended = 1
    /\ Len(inv[i].commits) = 1
    /\ inv[i].commits[1].by = "timer"
    /\ inv[i].commits[1].changed = {LeafX}

\* C17: in every state at most one draft of the store is open (made and not yet
\* finished), whichever invocations overlap.
C17_OneOpenDraft ==
  Cardinality({i \in 1..Len(inv) : inv[i].currentDraft.st = "open"}) <= 1

\* the n-th draft of invocation i, which returned a promise, is open; it is committed
DraftPending(i, n) ==
  IF i <= Len(inv)
  THEN inv[i].suspended >= 1 /\ inv[i].opened = n /\ inv[i].currentDraft.st = "open"
  ELSE FALSE
DraftCommitted(i, n) ==
  IF i <= Len(inv) THEN Len(inv[i].commits) >= n ELSE FALSE

\* C19: for an invocation that returned a promise, a draft that is open while the
\* promise is unsettled or after it rejected has the timer pending, and the n-th
\* draft the invocation opened is eventually committed (it then has n commits).
C19_DraftsEventuallyCommitted ==
  /\ [](\A i \in 1..Len(inv) :
          (inv[i].phase \in {"pending", "rejected"} /\ inv[i].currentDraft.st = "open")
          => inv[i].timeout)
  /\ \A i \in 1..MaxInv : \A n \in 1..MaxAccess :
       DraftPending(i, n) ~> DraftCommitted(i, n)

\* a continuation wrote and then threw: the promise rejected, and the timer
\* committed what it had written
C19_Witness ==
  \E i \in 1..Len(inv) :
    /\ inv[i].phase = "rejected"
    /\ inv[i].error = "user"
    /\ inv[i].suspended = 1
    /\ inv[i].written.async # {}
    /\ inv[i].currentDraft.st = "null"
    /\ inv[i].commits # <<>>
    /\ inv[i].commits[Len(inv[i].commits)].by = "timer"
    /\ inv[i].commits[Len(inv[i].commits)].wrote = inv[i].written.async

\* ======================================================================
\* Claims about the path accumulator (SpecUpd)
\* ======================================================================
\* C5: the dirty path set of a commit is exactly the dot-joined path of every
\* edit record, plus the dot-joined parent path (the empty string for a top-level
\* key) of every add and remove record; a replace record adds its own path only.
C5_DirtyPaths ==
  lastCall.op = "getUpdate" =>
    Range(paths) =
      {PathString(operations[n].path) : n \in 1..Len(operations)}
      \cup {ParentString(operations[n].path) :
              n \in {m \in 1..Len(operations) : operations[m].op \in {"add", "remove"}}}

\* a commit of a replace of x and an add of obj.k: "x", "obj" and "obj.k", no ""
C5_Witness ==
  /\ lastCall.op = "getUpdate"
  /\ operations = <<[op |-> "replace", path |-> LeafX], [op |-> "add", path |-> LeafK]>>
  /\ Range(paths) = {"x", "obj", "obj.k"}

\* ======================================================================
\* Claims about the subscription registry (SpecReg)
\* ======================================================================
\* how often a dispatch called subscription s for path p, and for any path
callsFor(log, s, p) ==
  Cardinality({n \in 1..Len(log) : ~log[n].global /\ log[n].sub = s /\ log[n].path = p})
callsOf(log, s) ==
  Cardinality({n \in 1..Len(log) : ~log[n].global /\ log[n].sub = s})
globalCalls(log) == Cardinality({n \in 1..Len(log) : log[n].global})
\* the paths under which s is registered
interestOf(pl, s) == {p \in PathStrs : s \in Range(pl[p])}
\* whether a callback of the dispatch called a disposer
unmounted(log) == \E n \in 1..Len(log) : Effect(log[n].update) = "unmount"

\* the counts C4 states, for the batch a step dispatches
ExactCounts ==
  /\ \A s \in 1..Len(subs) :
       callsOf(calls', s) = Cardinality(interestOf(pathListeners, s) \cap Range(lastPaths'))
  /\ globalCalls(calls') = Len(globalListeners)

C6_DisposeRemovesItself ==
  [][/\ \A s \in 1..Len(subs) :
          (lastCall'.op = "dispose" /\ lastCall'.sub = s /\ s \notin disposed /\ ~subs[s].global)
          => /\ \A p \in PathStrs :
                  pathListeners'[p] = SelectSeq(pathListeners[p], LAMBDA t : t # s)
             /\ globalListeners' = globalListeners
     /\ lastCall'.op = "action" =>
          \A n \in 1..Len(calls') : calls'[n].global \/ calls'[n].sub \notin disposed]_vars

\* C7: a second call of the same disposer leaves every bucket and the global
\* list as they were (stated for the disposer of a path subscription).
C7_SecondDisposeNoOp ==
  [][\A s \in 1..Len(subs) :
       (lastCall'.op = "dispose" /\ lastCall'.sub = s /\ s \in disposed /\ ~subs[s].global)
       => (pathListeners' = pathListeners /\ globalListeners' = globalListeners)]_vars

\* C8: when a callback disposes a subscription during a dispatch (no disposer
\* having been called before it), every subscription that stays registered in the
\* bucket of a dirty path is called once for that path: none is skipped, none
\* is called twice.
C8_StableSnapshot ==
  [][(lastCall'.op = "action" /\ ~lastCall'.thrown /\ disposed = {})
     => \A p \in Range(lastPaths') : \A s \in 1..Len(subs) :
          (s \in Range(pathListeners[p]) /\ s \in Range(pathListeners'[p]))
          => callsFor(calls', s, p) = 1]_vars


\* the update functions of the global calls of a dispatch, in the order of the calls
RECURSIVE globalUpdates(_)
globalUpdates(log) ==
  IF log = <<>> THEN <<>>
  ELSE IF Head(log).global THEN <<Head(log).update>> \o globalUpdates(Tail(log))
  ELSE globalUpdates(Tail(log))

\* the update functions of the global subscriptions, in the order of the subscribe calls
RECURSIVE subscribedGlobals(_)
subscribedGlobals(list) ==
  IF list = <<>> THEN <<>>
  ELSE IF Head(list).global THEN <<Head(list).update>> \o subscribedGlobals(Tail(list))
  ELSE subscribedGlobals(Tail(list))

\* a is b with some elements left out
RECURSIVE IsSubSeq(_, _)
IsSubSeq(a, b) ==
  IF a = <<>> THEN TRUE
  ELSE IF b = <<>> THEN FALSE
  ELSE IF Head(a) = Head(b) THEN IsSubSeq(Tail(a), Tail(b))
  ELSE IsSubSeq(a, Tail(b))

\* C13: in the notification of one commit every call of a path subscription comes
\* before every call of a global one; the calls made for one path are in the order
\* the subscriptions were inserted in its bucket (the order of the subscribe
\* calls), none twice; the global calls follow the global list from its start,
\* and the global list is in the order of the subscribe calls.
C13_NotificationOrder ==
  [][lastCall'.op = "action" =>
       /\ \A m, n \in 1..Len(calls') :
            (m < n /\ calls'[m].global) => calls'[n].global
       /\ \A m, n \in 1..Len(calls') :
            (m < n /\ ~calls'[m].global /\ ~calls'[n].global /\ calls'[m].path = calls'[n].path)
            => calls'[m].sub < calls'[n].sub
       /\ Len(globalUpdates(calls')) <= Len(globalListeners')
       /\ globalUpdates(calls') = SubSeq(globalListeners', 1, Len(globalUpdates(calls')))
       /\ IsSubSeq(globalListeners', subscribedGlobals(subs))]_vars

\* a commit called two subscriptions of the bucket of x, then a global one
C13_Witness ==
  /\ lastCall.op = "action"
  /\ Len(calls) = 3
  /\ ~calls[1].global /\ ~calls[2].global /\ calls[3].global
  /\ calls[1].path = "x" /\ calls[2].path = "x"
  /\ calls[1].sub < calls[2].sub


\* C18: a callback that throws is the last call of its dispatch, and the dispatch
\* throws: no subscription after it in its bucket, no bucket of a later dirty
\* path and no global subscription is called; currentState is the new snapshot,
\* changed at the leaves the dirty paths name.
C18_ThrowInterrupts ==
  [][lastCall'.op = "action" =>
       /\ \A n \in 1..Len(calls') :
            Effect(calls'[n].update) = "throw" => (n = Len(calls') /\ lastCall'.thrown)
       /\ lastCall'.thrown =>
            /\ calls' # <<>>
            /\ Effect(calls'[Len(calls')].update) = "throw"
            /\ globalCalls(calls') = 0
            /\ \A l \in Leaves :
                 PathString(l) \in Range(lastPaths') <=> currentState'[l] # currentState[l]]_vars

\* the first subscription of the bucket of x threw: the one after it and the
\* global one were not called, and x has its new value
C18_Witness ==
  /\ lastCall.op = "action"
  /\ lastCall.thrown
  /\ Len(pathListeners["x"]) = 2
  /\ Len(globalListeners) = 1
  /\ Len(calls) = 1
  /\ calls[1].sub = pathListeners["x"][1]
  /\ currentState[LeafX] = "v2"

\* C20: every callback of a commit, of a path or global, reads as store.state the
\* snapshot the commit installed, which differs from the previous one at the leaves
\* the dirty paths name.
C20_NewSnapshotSeen ==
  [][lastCall'.op = "action" =>
       \A n \in 1..Len(calls') :
         /\ calls'[n].seen = currentState'
         /\ \A l \in Leaves :
              PathString(l) \in Range(lastPaths') => calls'[n].seen[l] # currentState[l]]_vars

\* a commit changed x and called a path subscription and a global one
C20_Witness ==
  /\ lastCall.op = "action"
  /\ "x" \in Range(lastPaths)
  /\ \E m, n \in 1..Len(calls) :
       /\ ~calls[m].global /\ calls[n].global
       /\ calls[m].seen = currentState /\ calls[n].seen = currentState
  /\ currentState[LeafX] = "v2"

====
